---- MODULE Spec2Model ----
(***************************************************************************)
(* QPay payment processor (processors/qpay.py) and its checkout views      *)
(* (views/qpay.py) as a state machine.                                     *)
(*                                                                         *)
(* A request is handled by one worker; several workers run at once.  A     *)
(* handler is cut into steps only where it blocks on the gateway (token,   *)
(* privileged request) or on the storage layer (record_payment,            *)
(* create_order); everything the handler does between two such points is   *)
(* one step.                                                               *)
(*                                                                         *)
(* JSON objects are records; a key the object does not carry is a field    *)
(* the record does not have ("k" \in DOMAIN o is Python's k in o).         *)
(***************************************************************************)
EXTENDS Naturals, Sequences, FiniteSets

VARIABLES
    attr,        \* basket -> value of its payment-intent-id BasketAttribute
    audit,       \* PaymentProcessorResponse table, in insertion order
    payments,    \* payment records written by record_payment, in insertion order
    orders,      \* order numbers of the orders placed
    req,         \* worker -> the request it is handling
    started,     \* number of requests accepted so far
    credited,    \* number of issue_credit calls that returned or raised
    auditFaulty, \* whether the PaymentProcessorResponse table can refuse a write
    total        \* basket -> its total_incl_tax, in thousandths of the currency unit

vars == <<attr, audit, payments, orders, req, started, credited, auditFaulty, total>>

(***************************************************************************)
(* Bounds                                                                  *)
(***************************************************************************)
MaxRequests == 2       \* requests accepted in one behaviour
MaxRows     == 1       \* rows in one payment/check response of the workflow
MaxScanRows == 3       \* rows in one response given to check alone
MaxTotal    == 20000   \* largest basket total given to _get_basket_amount, in thousandths

Workers    == {1, 2}
Baskets    == {"B1", "B2"}
InvoiceIds == {"INV-1", "INV-2"}

None == [none |-> TRUE] \* Python's None where an object is expected
Null == "None"         \* Python's None where a string is expected

\* basket.total_incl_tax in thousandths of the currency unit, basket.currency
BasketTotal(b)    == total[b]
BasketCurrency(b) == IF b = "B1" THEN "USD" ELSE "MNT"

\* the totals of the baskets of the workflow: 49.99 and 19.995
WorkflowTotals == [b \in Baskets |-> IF b = "B1" THEN 49990 ELSE 19995]

(***************************************************************************)
(* The gateway's wire contract for payment/check                           *)
(***************************************************************************)
\* a row carries payment_status; the "status" slot that
\* handle_processor_response asserts on may be there or not
Rows ==
    [payment_status : {"PAID"}, status : {"succeeded", "pending"}]
        \cup [payment_status : {"PAID", "NEW"}]

RowSeqs(n) == UNION {[1..k -> Rows] : k \in 0..n}

CheckResponses(n) ==
    {[error |-> "PAYMENT_NOTFOUND"]}
        \cup [rows : RowSeqs(n)]
        \cup [error : {"PAYMENT_NOTFOUND", "INVOICE_NOTFOUND"}, rows : RowSeqs(n)]

\* what a refund request answers when it answers
RefundResponses == {[payment_status |-> "REFUNDED"], [error |-> "PAYMENT_NOTFOUND"]}

\* the canonical not-paid value of check
NotPaid == [payment_status |-> "NOT-PAID"]

\* the {} that issue_credit records for a failed refund
EmptyBody == <<>>

(***************************************************************************)
(* Qpay.check, after the token was fetched and the gateway answered res    *)
(***************************************************************************)
PaidIndexes(rows) == {i \in 1..Len(rows) : rows[i].payment_status = "PAID"}

FirstPaid(rows) ==
    rows[CHOOSE i \in PaidIndexes(rows) : \A j \in PaidIndexes(rows) : i <= j]

LastPaid(rows) ==
    rows[CHOOSE i \in PaidIndexes(rows) : \A j \in PaidIndexes(rows) : j <= i]

\* mutant: the scan keeps the last PAID row instead of returning the first
check_last(res) ==
    IF ("error" \in DOMAIN res) /\ res.error = "PAYMENT_NOTFOUND"
    THEN [exc |-> "", value |-> NotPaid]
    ELSE IF "rows" \notin DOMAIN res
    THEN [exc |-> "KeyError", value |-> None]
    ELSE IF PaidIndexes(res.rows) # {}
    THEN [exc |-> "", value |-> LastPaid(res.rows)]
    ELSE [exc |-> "", value |-> NotPaid]

\* [exc, value]: the exception check raises ("" for none) and what it returns
check(res) ==
    IF ("error" \in DOMAIN res) /\ res.error = "PAYMENT_NOTFOUND"
    THEN [exc |-> "", value |-> NotPaid]
    ELSE IF "rows" \notin DOMAIN res
    THEN [exc |-> "KeyError", value |-> None]
    ELSE IF PaidIndexes(res.rows) # {}
    THEN [exc |-> "", value |-> FirstPaid(res.rows)]
    ELSE [exc |-> "", value |-> NotPaid]

\* how check can end: the request fails, or the gateway answers
CheckOutcomes ==
    {[exc |-> "RequestException", value |-> None]}
        \cup {check(res) : res \in CheckResponses(MaxRows)}

(***************************************************************************)
(* Storage-layer collaborators                                             *)
(***************************************************************************)
\* the row record_processor_response inserts
AuditRecord(response, transaction_id, basket) ==
    [transaction_id |-> transaction_id, response |-> response, basket |-> basket]

\* outcomes of one insert into the PaymentProcessorResponse table
AuditOutcomes == IF auditFaulty THEN BOOLEAN ELSE {TRUE}

\* basket_add_payment_intent_id_attribute: the value becomes the basket's
\* correlation attribute
basket_add_payment_intent_id_attribute(a, basket, value) ==
    [a EXCEPT ![basket] = value]

\* what form_valid hands to basket_add_payment_intent_id_attribute: the POST
\* data as a whole, never an invoice id
PostData == "POST-DATA"

\* record_payment: one payment record for the handled response; the storage
\* layer refuses a second record with the same transaction id
PaymentRecord(basket, hpr) ==
    [transaction_id |-> hpr.transaction_id, total |-> hpr.total,
     currency |-> hpr.currency, basket |-> basket]

record_payment(ps, basket, hpr) ==
    IF \A i \in 1..Len(ps) : ps[i].transaction_id # hpr.transaction_id
    THEN [exc |-> "", payments |-> Append(ps, PaymentRecord(basket, hpr))]
    ELSE [exc |-> "IntegrityError", payments |-> ps]

(***************************************************************************)
(* Qpay.handle_processor_response, from the outcome of check on            *)
(*   checked : [exc, value] as check gives it (exc also a failed token)    *)
(*   auditOk : whether the insert of record_processor_response succeeds    *)
(* gives                                                                   *)
(*   exc     : the exception raised, "" for a normal return                *)
(*   audits  : the rows handed to record_processor_response, in order      *)
(*   writes  : those of them that were inserted                            *)
(*   hpr     : the HandledProcessorResponse returned, None when raising    *)
(***************************************************************************)
HandledProcessorResponse(payment_intent_id, basket) ==
    [transaction_id |-> payment_intent_id,
     total          |-> BasketTotal(basket),
     currency       |-> BasketCurrency(basket),
     card_number    |-> "Qpay",
     card_type      |-> payment_intent_id]

\* raise e before anything was recorded
Raise(e) == [exc |-> e, audits |-> <<>>, writes |-> <<>>, hpr |-> None]

\* record_processor_response(row), then raise e or return hpr; a refused
\* insert raises instead
Recorded(row, auditOk, e, hpr) ==
    [exc    |-> IF auditOk THEN e ELSE "DatabaseError",
     audits |-> <<row>>,
     writes |-> IF auditOk THEN <<row>> ELSE <<>>,
     hpr    |-> IF auditOk THEN hpr ELSE None]

\* mutant: the not-paid branch raises without recording the response
handle_processor_response_unrecorded(payment_intent_id, basket, checked, auditOk) ==
    LET row == AuditRecord(checked.value, payment_intent_id, basket)
    IN  IF checked.exc # ""
        THEN Raise(checked.exc)
        ELSE IF checked.value.payment_status = "NOT-PAID"
        THEN Raise("OrderNotPaidException")
        ELSE IF "status" \notin DOMAIN checked.value
        THEN Raise("KeyError")
        ELSE IF checked.value.status # "succeeded"
        THEN Raise("AssertionError")
        ELSE Recorded(row, auditOk, "",
                      HandledProcessorResponse(payment_intent_id, basket))

handle_processor_response(payment_intent_id, basket, checked, auditOk) ==
    LET row == AuditRecord(checked.value, payment_intent_id, basket)
    IN  IF checked.exc # ""
        THEN Raise(checked.exc)
        ELSE IF checked.value.payment_status = "NOT-PAID"
        THEN Recorded(row, auditOk, "OrderNotPaidException", None)
        ELSE IF "status" \notin DOMAIN checked.value
        THEN Raise("KeyError")
        ELSE IF checked.value.status # "succeeded"
        THEN Raise("AssertionError")
        ELSE Recorded(row, auditOk, "",
                      HandledProcessorResponse(payment_intent_id, basket))

(***************************************************************************)
(* Qpay.issue_credit, from the outcome of refund                           *)
(*   refunded : [exc, value], exc also a failed token                      *)
(* gives exc, audits, writes as above and ret, the transaction id returned *)
(***************************************************************************)
\* mutant: a failed refund is re-raised without the empty-body record
issue_credit_unrecorded(basket, reference_number, refunded, auditOk) ==
    IF refunded.exc # ""
    THEN [exc |-> refunded.exc, audits |-> <<>>, writes |-> <<>>, ret |-> Null]
    ELSE LET row == AuditRecord(refunded.value, reference_number, basket)
         IN  [exc    |-> IF auditOk THEN "" ELSE "DatabaseError",
              audits |-> <<row>>,
              writes |-> IF auditOk THEN <<row>> ELSE <<>>,
              ret    |-> IF auditOk THEN reference_number ELSE Null]

issue_credit(basket, reference_number, refunded, auditOk) ==
    IF refunded.exc # ""
    THEN LET row == AuditRecord(EmptyBody, reference_number, basket)
         IN  [exc    |-> IF auditOk THEN refunded.exc ELSE "DatabaseError",
              audits |-> <<row>>,
              writes |-> IF auditOk THEN <<row>> ELSE <<>>,
              ret    |-> Null]
    ELSE LET row == AuditRecord(refunded.value, reference_number, basket)
         IN  [exc    |-> IF auditOk THEN "" ELSE "DatabaseError",
              audits |-> <<row>>,
              writes |-> IF auditOk THEN <<row>> ELSE <<>>,
              ret    |-> IF auditOk THEN reference_number ELSE Null]

(***************************************************************************)
(* QpayAPICheckView._get_basket                                            *)
(*   unexpected: Applicator or the attribute helpers raised                *)
(***************************************************************************)
Carriers(a, payment_intent_id) == {b \in Baskets : a[b] = payment_intent_id}

\* mutant: of several baskets carrying the id, one is picked
_get_basket_first(a, payment_intent_id, unexpected) ==
    IF Carriers(a, payment_intent_id) = {} \/ unexpected
    THEN Null
    ELSE CHOOSE b \in Carriers(a, payment_intent_id) : TRUE

_get_basket(a, payment_intent_id, unexpected) ==
    IF Cardinality(Carriers(a, payment_intent_id)) # 1 \/ unexpected
    THEN Null
    ELSE CHOOSE b \in Carriers(a, payment_intent_id) : TRUE

(***************************************************************************)
(* Qpay._get_basket_amount: str((basket.total_incl_tax * 100)              *)
(*                              .to_integral_value())                      *)
(* A Decimal is a pair: an integer numerator over a power-of-ten           *)
(* denominator.                                                            *)
(***************************************************************************)
\* mutant: ties go away from zero (ROUND_HALF_UP)
to_integral_value_half_up(n, d) ==
    IF 2 * (n % d) < d THEN n \div d ELSE (n \div d) + 1

\* Decimal.to_integral_value of n/d under the default context: to the nearest
\* integer, a tie to the even neighbour (ROUND_HALF_EVEN)
to_integral_value(n, d) ==
    LET q == n \div d
        r == n % d
    IN  IF 2 * r < d THEN q
        ELSE IF 2 * r > d THEN q + 1
        ELSE IF q % 2 = 0 THEN q ELSE q + 1

Digit(d) ==
    CASE d = 0 -> "0" [] d = 1 -> "1" [] d = 2 -> "2" [] d = 3 -> "3"
      [] d = 4 -> "4" [] d = 5 -> "5" [] d = 6 -> "6" [] d = 7 -> "7"
      [] d = 8 -> "8" [] d = 9 -> "9"

\* str of a non-negative integral Decimal: its decimal digits
RECURSIVE str(_)
str(n) == IF n < 10 THEN Digit(n) ELSE str(n \div 10) \o Digit(n % 10)

_get_basket_amount(basket) ==
    str(to_integral_value(BasketTotal(basket) * 100, 1000))

(***************************************************************************)
(* Qpay.get_capture_context, for a basket with lines, from the outcome of  *)
(* create; for a basket without lines, from the default response           *)
(***************************************************************************)
CreateResponses ==
    [invoice_id : InvoiceIds, qPay_shortUrl : {"https://s.qpay.mn/x"}, qr_image : {"iVBOR"}]
        \cup [invoice_id : InvoiceIds]
        \cup {[error |-> "INVOICE_CODE_INVALID"]}

DefaultQpayResponse == [invoice_id |-> "", qr_code |-> "", qr_link |-> ""]

\* the dictionary built at the end of get_capture_context
new_capture_context(qpay_response, basket) ==
    IF {"invoice_id", "qPay_shortUrl", "qr_image"} \subseteq DOMAIN qpay_response
    THEN [exc |-> "",
          value |-> [invoice_id |-> qpay_response.invoice_id,
                     qpay_link  |-> qpay_response.qPay_shortUrl,
                     qpay_qr    |-> qpay_response.qr_image,
                     order_id   |-> basket]]
    ELSE [exc |-> "KeyError", value |-> None]

\* mutant: the invoice id is not stored on the basket
get_capture_context_unstored(a, basket, has_lines, created) ==
    LET ctx == new_capture_context(
                   IF has_lines THEN created.value ELSE DefaultQpayResponse, basket)
    IN  IF has_lines /\ created.exc # ""
        THEN [exc |-> created.exc, value |-> None, attr |-> a]
        ELSE IF has_lines /\ "invoice_id" \notin DOMAIN created.value
        THEN [exc |-> "KeyError", value |-> None, attr |-> a]
        ELSE [exc |-> ctx.exc, value |-> ctx.value, attr |-> a]

\* [exc, value, attr]: exception, capture context, and the attribute table after
get_capture_context(a, basket, has_lines, created) ==
    LET raise(e, a2) == [exc |-> e, value |-> None, attr |-> a2]
        build(qpay_response, a2) ==
            LET ctx == new_capture_context(qpay_response, basket)
            IN  [exc |-> ctx.exc, value |-> ctx.value, attr |-> a2]
    IN  IF ~has_lines
        THEN build(DefaultQpayResponse, a)
        ELSE IF created.exc # ""
        THEN raise(created.exc, a)
        ELSE IF "invoice_id" \notin DOMAIN created.value
        THEN raise("KeyError", a)
        ELSE build(created.value,
                   basket_add_payment_intent_id_attribute(
                       a, basket, created.value.invoice_id))

(***************************************************************************)
(* Requests                                                                *)
(*   kind    "get" (QpayAPICheckView.get), "form_valid" (QpayCheckView),   *)
(*           "post" (QpayAPICreateView.post), "issue_credit"               *)
(*   pc      "token", "request": about to fetch the token, about to send   *)
(*           the privileged request; "record": handle_processor_response   *)
(*           returned, record_payment is next; "order": create_order is    *)
(*           next; "done": the handler returned                            *)
(*   carriers the baskets that carried pid when _get_basket looked it up   *)
(*   raw     the gateway's answer to check, when the state holds it        *)
(*   outcome how check, refund or create ended: [exc, value]               *)
(*   exc     the exception the processor operation ended with              *)
(*   hpr     what handle_processor_response returned                       *)
(*   ret     what issue_credit returned                                    *)
(*   context what get_capture_context returned                             *)
(*   amount  the "amount" of the payload create sent                       *)
(*   status, json, body: the HTTP response of a view                       *)
(*   calls   the gateway calls made, in order                              *)
(*   audits  the rows handed to record_processor_response, in order        *)
(*   pending rows inserted inside transaction.atomic, not yet committed    *)
(***************************************************************************)
Idle ==
    [kind |-> "none", pc |-> "idle", pid |-> Null, basket |-> Null, lines |-> FALSE,
     raw |-> None, outcome |-> None, carriers |-> {}, exc |-> "", hpr |-> None, ret |-> Null, context |-> None,
     amount |-> Null,
     status |-> 0, json |-> FALSE, body |-> "",
     calls |-> <<>>, audits |-> <<>>, pending |-> <<>>]

NewRequest(kind, pid, basket) ==
    [Idle EXCEPT !.kind = kind, !.pc = "token", !.pid = pid, !.basket = basket]

Respond(rq, status, json, body) ==
    [rq EXCEPT !.pc = "done", !.status = status, !.json = json, !.body = body]

\* the responses of the views
redirect_error_url     == <<302, FALSE, "error_url">>
qpay_error_response    == <<400, TRUE, "error_code user_message">>
error_page_response    == <<400, TRUE, "">>
receipt_page_response  == <<201, TRUE, "receipt_page_url">>
form_not_paid_response == <<400, TRUE, "error">>
form_order_failed      == <<400, TRUE, "">>
form_receipt_response  == <<201, TRUE, "url">>
checkout_page_response == <<201, TRUE, "capture_context">>
server_error_response  == <<500, FALSE, "unhandled exception">>

Answer(rq, resp) == Respond(rq, resp[1], resp[2], resp[3])

Free(w) == req[w].pc \in {"idle", "done"}

\* the answer of a worker's last request stays visible until the worker
\* takes the next one
Accepting(w) == Free(w) /\ started < MaxRequests

\* attribute tables at start, as earlier capture-context calls leave them:
\* no basket with an invoice, one basket, two baskets with different
\* invoices, two baskets with the same invoice
InitialAttrs ==
    {[b \in Baskets |-> Null],
     [b \in Baskets |-> IF b = "B1" THEN "INV-1" ELSE Null],
     [b \in Baskets |-> IF b = "B1" THEN "INV-1" ELSE "INV-2"],
     [b \in Baskets |-> "INV-1"]}

Init ==
    /\ attr \in InitialAttrs
    /\ audit = <<>>
    /\ payments = <<>>
    /\ orders = {}
    /\ req = [w \in Workers |-> Idle]
    /\ started = 0
    /\ credited = 0
    /\ auditFaulty = FALSE
    /\ total = WorkflowTotals

(***************************************************************************)
(* The storage layer and the views' use of it                              *)
(***************************************************************************)
\* the exceptions of the storage layer; one raised by an insert inside an
\* atomic block marks the transaction for rollback
DatabaseErrors == {"DatabaseError", "IntegrityError"}

\* mutant: the exception of handle_payment leaves the atomic block, whose
\* inserts are rolled back
atomic_exit_rolled_back(au, rows, escaped, exc) == au

\* leaving "with transaction.atomic()": the rows inserted inside are
\* committed unless an exception leaves the block (escaped) or a database
\* error raised inside it (exc), though caught there, marked the transaction
\* for rollback
atomic_exit(au, rows, escaped, exc) ==
    IF escaped \/ exc \in DatabaseErrors THEN au ELSE au \o rows

\* QpayCheckView.payment_processor: the class attribute, the str "qpay"; an
\* object is the record of its attributes, and a str has no NAME
QpayCheckView_payment_processor == [class |-> "str"]

\* QpayCheckView.handle_payment:
\*   handled: how handle_processor_response ends when it is called, [exc, hpr]
\* gives the exception handle_payment ends with, the payment records after,
\* and whether handle_processor_response was called.  properties is built
\* from self.payment_processor.NAME before the try.
handle_payment(payment_processor, ps, basket, handled) ==
    IF "NAME" \notin DOMAIN payment_processor
    THEN [exc |-> "AttributeError", payments |-> ps, called |-> FALSE]
    ELSE IF handled.exc # ""
    THEN [exc |-> handled.exc, payments |-> ps, called |-> TRUE]
    ELSE [exc      |-> record_payment(ps, basket, handled.hpr).exc,
          payments |-> record_payment(ps, basket, handled.hpr).payments,
          called   |-> TRUE]

\* mutant: the payment record is inserted without the storage layer's check
handle_payment_unchecked(ps, basket, exc, hpr) ==
    IF exc # ""
    THEN [exc |-> exc, payments |-> ps]
    ELSE [exc |-> "", payments |-> Append(ps, PaymentRecord(basket, hpr))]

\* EdxOrderPlacementMixin.handle_payment, the one QpayAPICheckView.get calls,
\* around handle_processor_response:
\*   exc, hpr: how handle_processor_response ended
\* gives the exception handle_payment ends with and the payment records after
EdxOrderPlacementMixin_handle_payment(ps, basket, exc, hpr) ==
    IF exc # ""
    THEN [exc |-> exc, payments |-> ps]
    ELSE record_payment(ps, basket, hpr)

\* create_order: places the order of the basket unless the order number is
\* taken or order placement fails (placed: it does not fail)
create_order(os, basket, placed) ==
    IF placed /\ basket \notin os
    THEN [exc |-> "", orders |-> os \cup {basket}]
    ELSE [exc |-> "Exception", orders |-> os]

\* handle_post_order after create_order placed the order (handled: it does
\* not raise)
handle_post_order(handled) == IF handled THEN "" ELSE "Exception"

\* the except branches of the views after handle_payment
handle_payment_failed(kind) ==
    IF kind = "get" THEN qpay_error_response ELSE form_not_paid_response

\* mutant: the receipt is answered whatever create_order did
order_response_receipt(kind, exc) ==
    IF kind = "get" THEN receipt_page_response ELSE form_receipt_response

\* the end of the views after create_order (in get: and handle_post_order)
order_response(kind, exc) ==
    IF kind = "get"
    THEN (IF exc = "" THEN receipt_page_response ELSE error_page_response)
    ELSE (IF exc = "" THEN form_receipt_response ELSE form_order_failed)

\* QpayAPICreateView.post around get_capture_context
post(exc) == IF exc = "" THEN checkout_page_response ELSE server_error_response

(***************************************************************************)
(* What a handler does once its gateway operation ended with outcome       *)
(*   [exc, value]  (exc: the token or the request failed, or check raised) *)
(***************************************************************************)
Confirm(w, rq, outcome, auditOk) ==
    LET h == handle_processor_response(rq.pid, rq.basket, outcome, auditOk)
        rq2 == [rq EXCEPT !.outcome = outcome, !.exc = h.exc, !.hpr = h.hpr,
                          !.audits = rq.audits \o h.audits]
    IN  /\ IF h.exc # ""
           THEN LET p == EdxOrderPlacementMixin_handle_payment(
                                  payments, rq.basket, h.exc, h.hpr)
                IN  /\ req' = [req EXCEPT ![w] =
                                  Answer([rq2 EXCEPT !.exc = p.exc],
                                         handle_payment_failed(rq.kind))]
                    /\ payments' = p.payments
                    /\ audit' = atomic_exit(audit, h.writes, FALSE, p.exc)
           ELSE /\ req' = [req EXCEPT ![w] =
                              [rq2 EXCEPT !.pc = "record", !.pending = h.writes]]
                /\ payments' = payments
                /\ audit' = audit
        /\ UNCHANGED <<attr, orders, started, credited, auditFaulty, total>>

Credit(w, rq, outcome, auditOk) ==
    LET c == issue_credit(rq.basket, rq.pid, outcome, auditOk)
    IN  /\ req' = [req EXCEPT ![w] = [rq EXCEPT !.pc = "done", !.exc = c.exc,
                                               !.outcome = outcome, !.ret = c.ret,
                                               !.audits = rq.audits \o c.audits]]
        /\ audit' = audit \o c.writes
        /\ credited' = credited + 1
        /\ UNCHANGED <<attr, payments, orders, started, auditFaulty, total>>

Capture(w, rq, has_lines, outcome) ==
    LET g == get_capture_context(attr, rq.basket, has_lines, outcome)
    IN  /\ req' = [req EXCEPT ![w] = Answer([rq EXCEPT !.exc = g.exc, !.context = g.value,
                                                       !.outcome = outcome],
                                            post(g.exc))]
        /\ attr' = g.attr
        /\ UNCHANGED <<audit, payments, orders, credited, auditFaulty, total>>

Proceed(w, rq, outcome, auditOk) ==
    CASE rq.kind = "get"          -> Confirm(w, rq, outcome, auditOk)
      [] rq.kind = "issue_credit" -> Credit(w, rq, outcome, auditOk)
      [] rq.kind = "post"         -> Capture(w, rq, TRUE, outcome)
                                     /\ UNCHANGED started

Failed(e) == [exc |-> e, value |-> None]
Returned(v) == [exc |-> "", value |-> v]

(***************************************************************************)
(* Actions                                                                 *)
(***************************************************************************)
\* QpayAPICheckView.get up to the call of handle_payment
StartGet(w) ==
    /\ Accepting(w)
    /\ \E payment_intent_id \in InvoiceIds, unexpected \in BOOLEAN :
          LET basket == _get_basket(attr, payment_intent_id, unexpected)
          IN  req' = [req EXCEPT ![w] =
                  IF basket = Null
                  THEN Answer([Idle EXCEPT !.kind = "get", !.pid = payment_intent_id,
                                           !.carriers = Carriers(attr, payment_intent_id)],
                              redirect_error_url)
                  ELSE [NewRequest("get", payment_intent_id, basket)
                           EXCEPT !.carriers = Carriers(attr, payment_intent_id)]]
    /\ started' = started + 1
    /\ UNCHANGED <<attr, audit, payments, orders, credited, auditFaulty, total>>

\* QpayCheckView.form_valid up to create_order: the attributes are stored
\* and handle_payment runs; with the view's payment_processor it fails on
\* self.payment_processor.NAME before it calls handle_processor_response, and
\* the view answers from its first except
StartFormValid(w) ==
    /\ Accepting(w)
    /\ \E basket \in Baskets, payment_intent_id \in InvoiceIds :
          LET p  == handle_payment(QpayCheckView_payment_processor, payments, basket, None)
              rq == [NewRequest("form_valid", payment_intent_id, basket)
                        EXCEPT !.exc = p.exc]
          IN  /\ req' = [req EXCEPT ![w] =
                            IF p.exc # ""
                            THEN Answer(rq, handle_payment_failed("form_valid"))
                            ELSE [rq EXCEPT !.pc = "order"]]
              /\ attr' = basket_add_payment_intent_id_attribute(attr, basket, PostData)
              /\ payments' = p.payments
    /\ started' = started + 1
    /\ UNCHANGED <<audit, orders, credited, auditFaulty, total>>

\* QpayAPICreateView.post up to the call of create; all of it for a basket
\* without lines
StartPost(w) ==
    /\ Accepting(w)
    /\ started' = started + 1
    /\ \E basket \in Baskets, has_lines \in BOOLEAN :
          IF has_lines
          THEN /\ req' = [req EXCEPT ![w] =
                              [NewRequest("post", Null, basket) EXCEPT !.lines = TRUE]]
               /\ UNCHANGED <<attr, audit, payments, orders, credited, auditFaulty, total>>
          ELSE Capture(w, [NewRequest("post", Null, basket) EXCEPT !.pc = "done"],
                       FALSE, None)

\* a call of Qpay.issue_credit up to the call of refund
StartIssueCredit(w) ==
    /\ Accepting(w)
    /\ \E basket \in Baskets, reference_number \in InvoiceIds :
          req' = [req EXCEPT ![w] = NewRequest("issue_credit", reference_number, basket)]
    /\ started' = started + 1
    /\ UNCHANGED <<attr, audit, payments, orders, credited, auditFaulty, total>>

\* mutant: the token is kept on the processor; an operation that finds one
\* fetched for another operation uses it instead of fetching its own
Token_cached(w) ==
    /\ req[w].pc = "token"
    /\ LET cached == \E v \in Workers : v # w /\ req[v].calls # <<>>
           rq == IF cached THEN req[w]
                 ELSE [req[w] EXCEPT !.calls = Append(req[w].calls, "token")]
       IN  \E ok \in BOOLEAN, auditOk \in AuditOutcomes :
              IF ok \/ cached
              THEN /\ req' = [req EXCEPT ![w] = [rq EXCEPT !.pc = "request"]]
                   /\ UNCHANGED <<attr, audit, payments, orders, started, credited,
                                  auditFaulty, total>>
              ELSE Proceed(w, rq, Failed("RequestException"), auditOk)

\* Qpay.token, called first by create, refund and check
Token(w) ==
    /\ req[w].pc = "token"
    /\ LET rq == [req[w] EXCEPT !.calls = Append(req[w].calls, "token")]
       IN  \E ok \in BOOLEAN, auditOk \in AuditOutcomes :
              IF ok
              THEN /\ req' = [req EXCEPT ![w] = [rq EXCEPT !.pc = "request"]]
                   /\ UNCHANGED <<attr, audit, payments, orders, started, credited,
                                  auditFaulty, total>>
              ELSE Proceed(w, rq, Failed("RequestException"), auditOk)

\* mutant: a status query that failed in transport is sent again, once
Check_retry(w) ==
    /\ req[w].pc = "request"
    /\ req[w].kind = "get"
    /\ LET rq == [req[w] EXCEPT !.calls = Append(req[w].calls, "check")]
       IN  \E auditOk \in AuditOutcomes, outcome \in CheckOutcomes :
              IF outcome.exc = "RequestException" /\ Len(rq.calls) < 3
              THEN /\ req' = [req EXCEPT ![w] = rq]
                   /\ UNCHANGED <<attr, audit, payments, orders, started, credited,
                                  auditFaulty, total>>
              ELSE Proceed(w, rq, outcome, auditOk)

\* the request of Qpay.check and what follows it up to record_payment; the
\* gateway's answer is req[w].raw when the state holds it, any answer otherwise
Check(w) ==
    /\ req[w].pc = "request"
    /\ req[w].kind = "get"
    /\ LET rq == [req[w] EXCEPT !.calls = Append(req[w].calls, "check")]
       IN  \E auditOk \in AuditOutcomes :
              IF rq.raw # None
              THEN Proceed(w, rq, check(rq.raw), auditOk)
              ELSE \E outcome \in CheckOutcomes :
                      Proceed(w, rq, outcome, auditOk)

\* the request of Qpay.create and the rest of post
Create(w) ==
    /\ req[w].pc = "request"
    /\ req[w].kind = "post"
    /\ LET rq == [req[w] EXCEPT !.calls = Append(req[w].calls, "create"),
                                !.amount = _get_basket_amount(req[w].basket)]
       IN  \/ Proceed(w, rq, Failed("RequestException"), TRUE)
           \/ \E res \in CreateResponses :
                 Proceed(w, rq, Returned(res), TRUE)

\* the request of Qpay.refund and the rest of issue_credit
Refund(w) ==
    /\ req[w].pc = "request"
    /\ req[w].kind = "issue_credit"
    /\ LET rq == [req[w] EXCEPT !.calls = Append(req[w].calls, "refund")]
       IN  \E auditOk \in AuditOutcomes :
              \/ Proceed(w, rq, Failed("RequestException"), auditOk)
              \/ \E res \in RefundResponses :
                    Proceed(w, rq, Returned(res), auditOk)

\* handle_payment after handle_processor_response returned: record_payment,
\* and in get the end of the atomic block
RecordPayment(w) ==
    /\ req[w].pc = "record"
    /\ LET rq == req[w]
           p == EdxOrderPlacementMixin_handle_payment(payments, rq.basket, "", rq.hpr)
           done == [rq EXCEPT !.pending = <<>>, !.exc = p.exc]
       IN  /\ payments' = p.payments
           /\ audit' = atomic_exit(audit, rq.pending, FALSE, p.exc)
           /\ req' = [req EXCEPT ![w] =
                         IF p.exc = ""
                         THEN [done EXCEPT !.pc = "order"]
                         ELSE Answer(done, handle_payment_failed(rq.kind))]
    /\ UNCHANGED <<attr, orders, started, credited, auditFaulty, total>>

\* the end of the views: create_order, in get handle_post_order, and the
\* response
CreateOrder(w) ==
    /\ req[w].pc = "order"
    /\ \E placed \in BOOLEAN, handled \in BOOLEAN :
          LET o == create_order(orders, req[w].basket, placed)
              e == IF o.exc # "" \/ req[w].kind # "get"
                   THEN o.exc ELSE handle_post_order(handled)
          IN  /\ orders' = o.orders
              /\ req' = [req EXCEPT ![w] =
                            Answer(req[w], order_response(req[w].kind, e))]
    /\ UNCHANGED <<attr, audit, payments, started, credited, auditFaulty, total>>

Next ==
    \E w \in Workers :
        \/ StartGet(w)
        \/ StartFormValid(w)
        \/ StartPost(w)
        \/ StartIssueCredit(w)
        \/ Token(w)
        \/ Check(w)
        \/ Create(w)
        \/ Refund(w)
        \/ RecordPayment(w)
        \/ CreateOrder(w)

Spec == Init /\ [][Next]_vars

\* the same program over a PaymentProcessorResponse table that can refuse writes
InitAuditFaulty ==
    /\ attr \in InitialAttrs
    /\ audit = <<>>
    /\ payments = <<>>
    /\ orders = {}
    /\ req = [w \in Workers |-> Idle]
    /\ started = 0
    /\ credited = 0
    /\ auditFaulty = TRUE
    /\ total = WorkflowTotals

SpecAuditFaulty == InitAuditFaulty /\ [][Next]_vars

\* one confirmation whose payment/check request is in flight, for every answer
\* of up to MaxScanRows rows the gateway can give
InitScan ==
    \E pid \in InvoiceIds, basket \in Baskets, res \in CheckResponses(MaxScanRows) :
        /\ attr = [b \in Baskets |-> IF b # basket THEN Null ELSE pid]
        /\ audit = <<>>
        /\ payments = <<>>
        /\ orders = {}
        /\ req = [w \in Workers |->
                     IF w = 1
                     THEN [NewRequest("get", pid, basket) EXCEPT
                              !.pc = "request", !.calls = <<"token">>, !.raw = res,
                              !.carriers = {basket}]
                     ELSE Idle]
        /\ started = MaxRequests
        /\ credited = 0
        /\ auditFaulty = FALSE
        /\ total = WorkflowTotals

NextScan == \E w \in Workers : Check(w) \/ RecordPayment(w) \/ CreateOrder(w)

SpecScan == InitScan /\ [][NextScan]_vars

\* one invoice creation about to start, for every total of up to MaxTotal
\* thousandths
InitAmount ==
    \E t \in 0..MaxTotal :
        /\ attr = [b \in Baskets |-> Null]
        /\ audit = <<>>
        /\ payments = <<>>
        /\ orders = {}
        /\ req = [w \in Workers |->
                     IF w = 1
                     THEN [NewRequest("post", Null, "B2") EXCEPT !.lines = TRUE]
                     ELSE Idle]
        /\ started = MaxRequests
        /\ credited = 0
        /\ auditFaulty = FALSE
        /\ total = [WorkflowTotals EXCEPT !["B2"] = t]

NextAmount == \E w \in Workers : Token(w) \/ Create(w)

SpecAmount == InitAmount /\ [][NextAmount]_vars

(***************************************************************************)
(* Properties                                                              *)
(***************************************************************************)
\* worker w runs or ran a confirmation and handle_processor_response is over
ConfirmRan(w) == req[w].kind = "get" /\ req[w].outcome # None

\* check returned the value v to the confirmation of worker w
CheckReturned(w) == ConfirmRan(w) /\ req[w].outcome.exc = ""

Written(row) == \E i \in 1..Len(audit) : audit[i] = row

\* C1: handle_processor_response returns a payment record only when check
\* returned a row whose payment_status is "PAID"; when check returned the
\* not-paid value the confirmation ends with OrderNotPaidException, returns
\* no payment record, and exactly one audit record, carrying that value
\* under the invoice id, was handed to record_processor_response and written.
C1_ConfirmOnlyWhenPaid ==
    \A w \in Workers :
        ConfirmRan(w) =>
            /\ req[w].hpr # None =>
                  /\ req[w].outcome.exc = ""
                  /\ req[w].outcome.value.payment_status = "PAID"
            /\ (CheckReturned(w) /\ req[w].outcome.value = NotPaid) =>
                  /\ req[w].exc = "OrderNotPaidException"
                  /\ req[w].hpr = None
                  /\ req[w].pc = "done"
                  /\ req[w].audits = <<AuditRecord(NotPaid, req[w].pid, req[w].basket)>>
                  /\ Written(req[w].audits[1])

\* a not-paid confirmation ended beside one that returned a payment record
C1_Witness ==
    \E w, v \in Workers :
        /\ CheckReturned(w) /\ req[w].outcome.value = NotPaid /\ req[w].pc = "done"
        /\ ConfirmRan(v) /\ req[v].hpr # None

\* C2: whenever check returned a row whose payment_status is
\* "PAID", the confirmation returns a payment record with the invoice id as
\* transaction id and the basket's total and currency.
C2_PaidAlwaysSettles ==
    \A w \in Workers :
        (CheckReturned(w) /\ req[w].outcome.value.payment_status = "PAID") =>
            /\ req[w].hpr # None
            /\ req[w].hpr.transaction_id = req[w].pid
            /\ req[w].hpr.total = BasketTotal(req[w].basket)
            /\ req[w].hpr.currency = BasketCurrency(req[w].basket)

\* C3: in every confirmation in which check returned a value
\* (paid, not paid, or paid with an unexpected status slot) exactly one row,
\* carrying that value, was handed to record_processor_response by the time
\* handle_processor_response returned or raised.
C3_AuditExactlyOnce ==
    \A w \in Workers :
        CheckReturned(w) =>
            /\ Len(req[w].audits) = 1
            /\ req[w].audits[1].response = req[w].outcome.value

\* worker w ran issue_credit to its end
CreditDone(w) == req[w].kind = "issue_credit" /\ req[w].pc = "done"

\* the audit rows issue_credit writes: a refund answer or the empty body
RefundRows == {i \in 1..Len(audit) : audit[i].response \in RefundResponses \cup {EmptyBody}}

\* C4: every issue_credit call hands exactly one row, keyed by the original
\* invoice id, to record_processor_response and it is written: after a failed
\* refund (a failed token fetch included) the row has the empty body and the
\* original failure is re-raised; after a successful refund the row carries
\* the gateway's answer and the invoice id is returned.  The number of refund
\* rows in the audit table equals the number of finished calls.
C4_RefundAlwaysAudited ==
    /\ \A w \in Workers :
          CreditDone(w) =>
              /\ Len(req[w].audits) = 1
              /\ req[w].audits[1].transaction_id = req[w].pid
              /\ Written(req[w].audits[1])
              /\ req[w].outcome.exc # "" =>
                    /\ req[w].audits[1].response = EmptyBody
                    /\ req[w].exc = req[w].outcome.exc
                    /\ req[w].ret = Null
              /\ req[w].outcome.exc = "" =>
                    /\ req[w].audits[1].response = req[w].outcome.value
                    /\ req[w].exc = ""
                    /\ req[w].ret = req[w].pid
    /\ Cardinality(RefundRows) = credited

\* two calls ended, one with a failed refund and one with a refund made
C4_Witness ==
    /\ credited = 2
    /\ \E w, v \in Workers :
          /\ CreditDone(w) /\ req[w].exc = "RequestException"
          /\ CreditDone(v) /\ req[v].ret = req[v].pid

PaymentsOf(id) == {i \in 1..Len(payments) : payments[i].transaction_id = id}

\* C5: with a storage layer that refuses a second payment record with the
\* same transaction id, at most one payment record exists for an invoice id,
\* however confirmations of it are interleaved; and a payment record, once
\* written, is never changed or removed.
C5_OnePaymentPerInvoice ==
    /\ [](\A id \in InvoiceIds : Cardinality(PaymentsOf(id)) <= 1)
    /\ [][/\ Len(payments') >= Len(payments)
          /\ SubSeq(payments', 1, Len(payments)) = payments]_vars

\* two confirmations of the same invoice both got a succeeded PAID row; one
\* wrote the payment record and the other was refused
C5_Witness ==
    \E w, v \in Workers :
        /\ w # v
        /\ ConfirmRan(w) /\ ConfirmRan(v)
        /\ req[w].pid = req[v].pid
        /\ req[w].hpr # None /\ req[v].hpr # None
        /\ req[w].pc \in {"order", "done"} /\ req[w].exc = ""
        /\ req[v].pc = "done" /\ req[v].exc = "IntegrityError"
        /\ Cardinality(PaymentsOf(req[w].pid)) = 1

\* C6: when the gateway answers the status check with
\* {error: "PAYMENT_NOTFOUND"}, the confirmation raises OrderNotPaidException
\* and exactly one audit row is written for it, whose body is that answer.
C6_NotFoundAuditedRaw ==
    \A w \in Workers :
        (ConfirmRan(w) /\ req[w].raw = [error |-> "PAYMENT_NOTFOUND"]) =>
            /\ req[w].exc = "OrderNotPaidException"
            /\ Len(req[w].audits) = 1
            /\ Written(req[w].audits[1])
            /\ req[w].audits[1].response = req[w].raw

\* C7: when the refund of issue_credit failed, the caller receives that
\* failure, also when the write of the empty-body audit row fails.
C7_OriginalFailureSurvives ==
    \A w \in Workers :
        (CreditDone(w) /\ req[w].outcome.exc # "") =>
            req[w].exc = req[w].outcome.exc

\* C8: every response of form_valid, post and get is a JSON body with
\* status 201 or 400.
C8_OnlyJson201Or400 ==
    \A w \in Workers :
        (req[w].pc = "done" /\ req[w].kind \in {"get", "form_valid", "post"}) =>
            /\ req[w].json
            /\ req[w].status \in {201, 400}

\* C9: a callback whose invoice id is carried by several baskets, or by
\* none, resolves to no basket: the handler ends at once, without a gateway
\* call and without an audit record, a payment record or an order.
C9_AmbiguousCallbackRejected ==
    /\ [](\A w \in Workers :
            (req[w].kind = "get" /\ Cardinality(req[w].carriers) # 1) =>
                /\ req[w].pc = "done"
                /\ req[w].basket = Null
                /\ req[w].calls = <<>>
                /\ req[w].audits = <<>>
                /\ req[w].pending = <<>>
                /\ req[w].outcome = None
                /\ req[w].hpr = None)
    /\ [][\A w \in Workers :
            (/\ started' = started + 1
             /\ req'[w] # req[w]
             /\ req'[w].kind = "get"
             /\ Cardinality(req'[w].carriers) # 1) =>
                UNCHANGED <<attr, audit, payments, orders>>]_vars

\* one callback met two baskets carrying its invoice id, another met none
C9_Witness ==
    \E w, v \in Workers :
        /\ req[w].kind = "get" /\ req[w].carriers = Baskets /\ req[w].pc = "done"
        /\ req[v].kind = "get" /\ req[v].carriers = {} /\ req[v].pc = "done"

\* C10: check returns the first row whose payment_status is "PAID" when the
\* answer is not a PAYMENT_NOTFOUND error and has such a row, and the
\* not-paid value in every other case; it never returns a row that is not
\* PAID.
C10_CheckReturnsFirstPaid ==
    \A w \in Workers :
        (req[w].raw # None /\ req[w].outcome # None) =>
            LET res      == req[w].raw
                value    == req[w].outcome.value
                notfound == "error" \in DOMAIN res /\ res.error = "PAYMENT_NOTFOUND"
                rows     == IF "rows" \in DOMAIN res THEN res.rows ELSE <<>>
                paid(i)  == rows[i].payment_status = "PAID"
            IN  /\ req[w].outcome.exc = ""
                /\ IF ~notfound /\ \E i \in 1..Len(rows) : paid(i)
                   THEN \E i \in 1..Len(rows) :
                           /\ paid(i)
                           /\ \A j \in 1..Len(rows) : j < i => ~paid(j)
                           /\ value = rows[i]
                   ELSE value = NotPaid
                /\ value # NotPaid => value.payment_status = "PAID"

\* an answer whose first row is not PAID and whose second and third rows are
\* different PAID rows: the second was returned
C10_Witness ==
    \E w \in Workers :
        /\ req[w].raw # None /\ req[w].outcome # None
        /\ "rows" \in DOMAIN req[w].raw
        /\ "error" \in DOMAIN req[w].raw
        /\ Len(req[w].raw.rows) = 3
        /\ req[w].raw.rows[1].payment_status = "NEW"
        /\ req[w].raw.rows[2].payment_status = "PAID"
        /\ req[w].raw.rows[3].payment_status = "PAID"
        /\ req[w].raw.rows[2] # req[w].raw.rows[3]
        /\ req[w].outcome.value = req[w].raw.rows[2]

\* check returned to worker w a PAID row whose status slot is missing or does
\* not read "succeeded"
PaidUnconfirmed(w) ==
    /\ CheckReturned(w)
    /\ req[w].outcome.value.payment_status = "PAID"
    /\ \/ "status" \notin DOMAIN req[w].outcome.value
       \/ req[w].outcome.value.status # "succeeded"

\* the HTTP response worker w gave
Response(w) == <<req[w].status, req[w].json, req[w].body>>

\* C11: when check returned a PAID row whose status slot does not read
\* "succeeded", the confirmation ends in a failure that is not the not-paid
\* outcome, returns no payment record and reaches neither record_payment nor
\* create_order, and the response of the view differs from the response it
\* gives to a not-paid confirmation.
C11_InvariantViolationSurfaced ==
    \A w \in Workers :
        PaidUnconfirmed(w) =>
            /\ req[w].pc = "done"
            /\ req[w].exc \notin {"", "OrderNotPaidException"}
            /\ req[w].hpr = None
            /\ Response(w) # handle_payment_failed(req[w].kind)

\* the amount sent for a total of t thousandths, were ties rounded away from zero
HalfAwayFromZero(t) == (100 * t + 500) \div 1000

\* worker w sent a create request
CreateSent(w) == req[w].kind = "post" /\ req[w].amount # Null

\* C12 as stated: the amount is total x 100 rounded half away from zero, so
\* 19.995 gives "2000" and 19.985 gives "1999".
C12_AmountHalfAwayFromZero ==
    \A w \in Workers :
        CreateSent(w) =>
            /\ req[w].amount = str(HalfAwayFromZero(total[req[w].basket]))
            /\ total[req[w].basket] = 19995 => req[w].amount = "2000"
            /\ total[req[w].basket] = 19985 => req[w].amount = "1999"

\* C12 amended: the amount is the decimal rendering of the integer nearest to
\* total x 100, a tie going to the even neighbour, so 19.995 gives "2000" and
\* 19.985 gives "1998"; two create requests for the same basket send the same
\* amount.
C12_AmountHalfEven ==
    /\ \A w \in Workers :
          CreateSent(w) =>
              LET t  == total[req[w].basket]
                  lo == (100 * t) \div 1000
              IN  /\ \E n \in {lo, lo + 1} :
                        /\ req[w].amount = str(n)
                        /\ 1000 * n <= 100 * t + 500
                        /\ 100 * t <= 1000 * n + 500
                        /\ (1000 * n = 100 * t + 500 \/ 100 * t = 1000 * n + 500)
                               => n % 2 = 0
                  /\ t = 19995 => req[w].amount = "2000"
                  /\ t = 19985 => req[w].amount = "1998"
                  /\ t = 5 => req[w].amount = "0"
                  /\ t = 15 => req[w].amount = "2"
    /\ \A w, v \in Workers :
          (CreateSent(w) /\ CreateSent(v) /\ req[w].basket = req[v].basket) =>
              req[w].amount = req[v].amount

\* a create request for a total of 19.985 was sent with amount "1998"
C12_Witness ==
    \E w \in Workers :
        /\ CreateSent(w)
        /\ total[req[w].basket] = 19985
        /\ req[w].amount = "1998"
        /\ req[w].calls = <<"token", "create">>

\* the privileged gateway request of a request of the given kind
Privileged(kind) ==
    CASE kind = "get"                 -> "check"
      [] kind = "issue_credit"        -> "refund"
      [] kind = "post"                -> "create"
      [] OTHER                        -> "none"

\* C13: the gateway calls of one operation are its own token fetch, once,
\* and then its privileged request: a privileged request is sent only by a
\* step of an operation whose only call so far is its token fetch, and an
\* operation whose token fetch failed ends there, with the failure and
\* without a privileged request.
C13_FreshTokenPerOperation ==
    /\ [](\A w \in Workers :
            /\ req[w].calls \in {<<>>, <<"token">>, <<"token", Privileged(req[w].kind)>>}
            /\ req[w].pc = "token" => req[w].calls = <<>>
            /\ req[w].pc = "request" => req[w].calls = <<"token">>
            /\ req[w].pc \in {"record", "order"} => req[w].calls = <<"token", "check">>)
    /\ [][\A w \in Workers :
            /\ (req'[w].calls # req[w].calls /\ Len(req'[w].calls) >= 2) =>
                   /\ req[w].pc = "request"
                   /\ req[w].calls = <<"token">>
                   /\ req'[w].calls = <<"token", Privileged(req[w].kind)>>
            /\ (req[w].pc = "token" /\ req'[w].pc = "done") =>
                   /\ req'[w].calls = <<"token">>
                   /\ req'[w].exc # ""]_vars

\* one operation ended at its failed token fetch while another, with a token
\* of its own, sent its privileged request
C13_Witness ==
    \E w, v \in Workers :
        /\ req[w].pc = "done" /\ req[w].calls = <<"token">> /\ req[w].exc # ""
        /\ req[v].pc = "done" /\ req[v].calls = <<"token", "refund">>

\* the number of calls c among the gateway calls of worker w's request
Count(w, c) == Cardinality({i \in 1..Len(req[w].calls) : req[w].calls[i] = c})

\* worker w's gateway operation ended in a failure of the gateway
GatewayFailed(w) == req[w].outcome # None /\ req[w].outcome.exc # ""

\* C14 as stated: no retry: a request makes each gateway call at most once;
\* a confirmation that ended sent exactly one status query, whatever its
\* outcome; a failure of the gateway ends the attempt at that step with that
\* failure as the exception of the operation, and the view answers with an
\* error; no call follows it.
C14_ExactlyOneStatusQuery ==
    /\ [](\A w \in Workers :
            /\ \A c \in {"token", "check", "refund", "create"} : Count(w, c) <= 1
            /\ ConfirmRan(w) => Count(w, "check") = 1
            /\ GatewayFailed(w) =>
                   /\ req[w].pc = "done"
                   /\ req[w].exc = req[w].outcome.exc
                   /\ req[w].hpr = None /\ req[w].ret = Null /\ req[w].context = None
                   /\ req[w].kind \in {"get", "form_valid"} => req[w].status = 400
                   /\ req[w].kind = "post" => req[w].status = 500)
    /\ [][\A w \in Workers :
            (GatewayFailed(w) /\ req'[w].calls # <<>>) => req'[w].calls = req[w].calls]_vars

\* C14 amended: no retry: a request makes each gateway call at most once; a
\* confirmation that ended ran check once: its token fetch once and, the
\* token obtained, exactly one status query; when the token fetch failed, no
\* status query at all.  A failure of the gateway ends the attempt at that
\* step with that failure as the exception of the operation, and the view
\* answers with an error; no call follows it.
C14_NoRetry ==
    /\ [](\A w \in Workers :
            /\ \A c \in {"token", "check", "refund", "create"} : Count(w, c) <= 1
            /\ ConfirmRan(w) =>
                   /\ Count(w, "token") = 1
                   /\ req[w].calls # <<"token">> => Count(w, "check") = 1
                   /\ (req[w].calls = <<"token">>) =>
                          (GatewayFailed(w) /\ Count(w, "check") = 0)
            /\ GatewayFailed(w) =>
                   /\ req[w].pc = "done"
                   /\ req[w].exc = req[w].outcome.exc
                   /\ req[w].hpr = None /\ req[w].ret = Null /\ req[w].context = None
                   /\ req[w].kind \in {"get", "form_valid"} => req[w].status = 400
                   /\ req[w].kind = "post" => req[w].status = 500)
    /\ [][\A w \in Workers :
            (GatewayFailed(w) /\ req'[w].calls # <<>>) => req'[w].calls = req[w].calls]_vars

\* one confirmation ended at its failed token fetch without a status query,
\* another sent one status query, which failed in transport
C14_Witness ==
    \E w, v \in Workers :
        /\ ConfirmRan(w) /\ req[w].calls = <<"token">>
        /\ req[w].exc = "RequestException" /\ req[w].pc = "done"
        /\ ConfirmRan(v) /\ req[v].calls = <<"token", "check">>
        /\ req[v].outcome.exc = "RequestException" /\ req[v].pc = "done"

\* worker w handles a request of one of the two checkout views
Checkout(w) == req[w].kind \in {"get", "form_valid"}

\* the payment record of worker w's confirmation is in the table
PaymentWritten(w) ==
    \E i \in 1..Len(payments) : payments[i] = PaymentRecord(req[w].basket, req[w].hpr)

\* C15: in form_valid and get, record_payment runs only after
\* handle_processor_response returned a payment record, and create_order only
\* after handle_payment ended without failure; when handle_payment fails the
\* request ends there with a 400, writes no payment record and never reaches
\* create_order; a 201 is answered only by the step in which create_order
\* placed the order.  (form_valid, whose handle_payment always fails, is
\* always in the second case.)
C15_PaymentThenOrder ==
    /\ [](\A w \in Workers :
            Checkout(w) =>
                /\ req[w].pc = "record" => (req[w].hpr # None /\ req[w].exc = "")
                /\ req[w].pc = "order" =>
                       (req[w].hpr # None /\ req[w].exc = "" /\ PaymentWritten(w))
                /\ (req[w].pc = "done" /\ req[w].status = 201) =>
                       /\ req[w].hpr # None /\ req[w].exc = ""
                       /\ PaymentWritten(w)
                       /\ req[w].basket \in orders
                /\ (req[w].pc = "done" /\ req[w].exc # "") => req[w].status = 400)
    /\ [][ /\ payments' # payments =>
               \E w \in Workers :
                   /\ Checkout(w) /\ req[w].pc = "record" /\ req[w].hpr # None
                   /\ payments' = Append(payments, PaymentRecord(req[w].basket, req[w].hpr))
           /\ orders' # orders =>
               \E w \in Workers :
                   /\ Checkout(w) /\ req[w].pc = "order"
                   /\ orders' = orders \cup {req[w].basket}
           /\ \A w \in Workers :
               /\ (req'[w] # req[w] /\ req'[w].kind \in {"get", "form_valid"}
                     /\ req'[w].pc = "done" /\ req'[w].exc # "") =>
                       /\ req[w].pc # "order"
                       /\ payments' = payments /\ orders' = orders
                       /\ req'[w].status = 400
               /\ (req'[w].pc = "order" /\ req[w].pc # "order") =>
                       (req[w].pc = "record" /\ req'[w].exc = "")
               /\ (Checkout(w) /\ req[w].pc # "done" /\ req'[w].pc = "done"
                     /\ req'[w].status = 201) =>
                       (req[w].pc = "order" /\ req[w].basket \in orders' \ orders)]_vars

\* a callback was answered 201 with its order placed while a form submission
\* whose handle_payment failed was answered 400
C15_Witness ==
    \E w, v \in Workers :
        /\ req[w].kind = "get" /\ req[w].pc = "done" /\ req[w].status = 201
        /\ req[w].basket \in orders
        /\ req[v].kind = "form_valid" /\ req[v].pc = "done" /\ req[v].exc # ""
        /\ req[v].status = 400 /\ req[v].basket \notin orders

\* worker w's callback ended as not paid
NotPaidCallback(w) ==
    req[w].kind = "get" /\ req[w].pc = "done" /\ req[w].exc = "OrderNotPaidException"

\* C16: when a callback handled by get ends as not paid, the audit row
\* written inside handle_processor_response is in the table after the request
\* (the atomic block was left normally and nothing is pending), the step
\* wrote no payment record and placed no order, and the response is the 400
\* QPay error; rows of the audit table are never removed.
C16_NotPaidAuditCommitted ==
    /\ [](\A w \in Workers :
            NotPaidCallback(w) =>
                /\ Written(AuditRecord(NotPaid, req[w].pid, req[w].basket))
                /\ req[w].pending = <<>>
                /\ req[w].hpr = None
                /\ Response(w) = qpay_error_response)
    /\ [][ /\ Len(audit') >= Len(audit)
           /\ SubSeq(audit', 1, Len(audit)) = audit
           /\ \A w \in Workers :
                 (/\ req[w].pc = "request"
                  /\ req'[w].kind = "get" /\ req'[w].pc = "done"
                  /\ req'[w].exc = "OrderNotPaidException") =>
                     /\ audit' = Append(audit, AuditRecord(NotPaid, req[w].pid, req[w].basket))
                     /\ payments' = payments
                     /\ orders' = orders]_vars

\* a not-paid callback ended, its audit row is the only row of the table and
\* there is no payment record and no order
C16_Witness ==
    \E w \in Workers :
        /\ NotPaidCallback(w)
        /\ audit = <<AuditRecord(NotPaid, req[w].pid, req[w].basket)>>
        /\ payments = <<>> /\ orders = {}
        /\ started = MaxRequests

\* worker w's post for a basket with lines was answered with a capture context
CaptureSucceeded(w) ==
    req[w].kind = "post" /\ req[w].lines /\ req[w].pc = "done" /\ req[w].exc = ""

\* C17: when get_capture_context succeeds for a basket with lines, the
\* invoice id the gateway returned is the invoice_id of the capture context
\* and, at that step, becomes the basket's correlation attribute, the other
\* baskets keeping theirs; if then no other basket carries it, _get_basket
\* resolves it to that basket; and every callback that is handed to
\* handle_payment runs for the one basket that carries its invoice id.
C17_InvoiceIdCorrelates ==
    /\ [](\A w \in Workers :
            /\ CaptureSucceeded(w) =>
                   /\ req[w].context.invoice_id = req[w].outcome.value.invoice_id
                   /\ req[w].context.order_id = req[w].basket
            /\ (req[w].kind = "get" /\ req[w].basket # Null) =>
                   req[w].carriers = {req[w].basket})
    /\ [][\A w \in Workers :
            /\ (req[w].kind = "post" /\ req[w].pc = "request"
                  /\ req'[w].pc = "done" /\ req'[w].exc = "") =>
                   LET id == req'[w].outcome.value.invoice_id
                       b  == req[w].basket
                   IN  /\ attr'[b] = id
                       /\ \A o \in Baskets \ {b} : attr'[o] = attr[o]
                       /\ Carriers(attr', id) = {b} => _get_basket(attr', id, FALSE) = b
            /\ (started' = started + 1 /\ req'[w] # req[w]
                  /\ req'[w].kind = "get" /\ req'[w].basket # Null) =>
                   /\ attr[req'[w].basket] = req'[w].pid
                   /\ req'[w].carriers = Carriers(attr, req'[w].pid)]_vars

\* a capture context was returned for an invoice and a later callback with
\* that invoice id runs for the basket of the capture context
C17_Witness ==
    \E w, v \in Workers :
        /\ CaptureSucceeded(w)
        /\ attr[req[w].basket] = req[w].context.invoice_id
        /\ req[v].kind = "get" /\ req[v].pc = "token"
        /\ req[v].pid = req[w].context.invoice_id
        /\ req[v].basket = req[w].basket

\* C18: get_capture_context for a basket without lines makes no gateway
\* call, leaves the correlation attributes as they are and returns the
\* capture context of the default response: empty invoice id, link and QR
\* code and the basket's order number; post answers 201 with it.
C18_EmptyBasketDefaultContext ==
    /\ [](\A w \in Workers :
            (req[w].kind = "post" /\ ~req[w].lines /\ req[w].pc = "done") =>
                /\ req[w].calls = <<>>
                /\ req[w].exc = ""
                /\ req[w].context = [invoice_id |-> "", qpay_link |-> "",
                                      qpay_qr |-> "", order_id |-> req[w].basket]
                /\ req[w].status = 201)
    /\ [][\A w \in Workers :
            (req'[w] # req[w] /\ req'[w].kind = "post" /\ ~req'[w].lines
              /\ req'[w].pc = "done") => attr' = attr]_vars

====
